---- MODULE Spec2Model ----
(***************************************************************************)
(* A model of the synthetic problem generators and the factories of        *)
(* mi-prometheus:                                                           *)
(*   problems/seq_to_seq/algorithmic/manipulation_spatial_not.py           *)
(*   problems/seq_to_seq/algorithmic/serial_recall_simplified.py           *)
(*   problems/problem_factory.py, models/model_factory.py                  *)
(* Arrays are functions over 0-based index ranges, as in the source.       *)
(***************************************************************************)
EXTENDS Integers, Sequences, FiniteSets, TLC

VARIABLES
    problem,      \* the problem object: its class and the fields set by __init__
    raised,       \* the exception the last call raised, "None" if it returned
    batch,        \* what the last successful generate_batch returned
    last_op,      \* the last method called on the problem
    in_force,     \* the max length most recently given (constructor or set_max_length)
    fs,           \* the python files under problems/: <<dir, base>> -> class members
    sys_path,     \* sys.path: the directories appended by build_problem
    sys_modules,  \* sys.modules: base name -> the directory it was imported from
    result,       \* what the last factory call returned or raised
    controller,   \* the Controller module: its sizes and its linear layers
    forward_out   \* the arguments and the return value of the last Controller.forward

vars == <<problem, raised, batch, last_op, in_force, fs, sys_path, sys_modules, result,
          controller, forward_out>>

genVars == <<problem, raised, batch, last_op, in_force>>
facVars == <<fs, sys_path, sys_modules, result>>
ctlVars == <<controller, forward_out>>

----------------------------------------------------------------------------
(* Bounds of the model. *)

MaxBatch == 2
MaxLen == 2
MaxData == 2
MaxCtrl == 3
\* cap on batch_size * max_sequence_length * data_bits, the number of random bits
MaxCells == 4

----------------------------------------------------------------------------
(* numpy / torch array primitives used by the generators. *)

\* np.zeros([B, T, W])
Zeros3(B, T, W) == [b \in 0..(B - 1) |-> [t \in 0..(T - 1) |-> [w \in 0..(W - 1) |-> 0]]]

\* torch.zeros([B, T])
Zeros2(B, T) == [b \in 0..(B - 1) |-> [t \in 0..(T - 1) |-> 0]]

\* a variant of SetColumn that forgets the end of the slice: arr[:, tlo:, w] = v
SetColumn_open(arr, tlo, thi, w, v) ==
    [b \in DOMAIN arr |-> [t \in DOMAIN arr[b] |-> [x \in DOMAIN arr[b][t] |->
        IF t >= tlo /\ x = w THEN v ELSE arr[b][t][x]]]]

\* arr[:, tlo:thi, w] = v   (thi exclusive, clipped to the array as a slice is)
SetColumn(arr, tlo, thi, w, v) ==
    [b \in DOMAIN arr |-> [t \in DOMAIN arr[b] |-> [x \in DOMAIN arr[b][t] |->
        IF t >= tlo /\ t < thi /\ x = w THEN v ELSE arr[b][t][x]]]]

\* a block assignment that stores src in reverse time order: arr[...] = src[:, ::-1]
SetBlock_reversed(arr, tlo, thi, wlo, whi, src) ==
    [b \in DOMAIN arr |-> [t \in DOMAIN arr[b] |-> [x \in DOMAIN arr[b][t] |->
        IF t >= tlo /\ t < thi /\ x >= wlo /\ x < whi
        THEN src[b][thi - 1 - t][x - wlo] ELSE arr[b][t][x]]]]

\* arr[:, tlo:thi, wlo:whi] = src   (src indexed from 0 in both sliced axes)
SetBlock(arr, tlo, thi, wlo, whi, src) ==
    [b \in DOMAIN arr |-> [t \in DOMAIN arr[b] |-> [x \in DOMAIN arr[b][t] |->
        IF t >= tlo /\ t < thi /\ x >= wlo /\ x < whi
        THEN src[b][t - tlo][x - wlo] ELSE arr[b][t][x]]]]

\* a variant of SetMaskFrom that starts one step late: mask[:, tlo+1:] = v
SetMaskFrom_late(m, tlo, v) ==
    [b \in DOMAIN m |-> [t \in DOMAIN m[b] |-> IF t > tlo THEN v ELSE m[b][t]]]

\* mask[:, tlo:] = v
SetMaskFrom(m, tlo, v) ==
    [b \in DOMAIN m |-> [t \in DOMAIN m[b] |-> IF t >= tlo THEN v ELSE m[b][t]]]

\* a variant of LogicalNotBit that copies the bit
LogicalNotBit_copy(x) == x

\* np.logical_not on one element, stored back into a float array as 0 / 1
LogicalNotBit(x) == IF x = 0 THEN 1 ELSE 0

\* np.logical_not(bit_seq)
LogicalNot(a) == [b \in DOMAIN a |-> [t \in DOMAIN a[b] |-> [x \in DOMAIN a[b][t] |->
                    LogicalNotBit(a[b][t][x])]]]

\* the values np.random.binomial(1, bias, (B, L, D)) can return
BitSeqs(B, L, D) == [0..(B - 1) -> [0..(L - 1) -> [0..(D - 1) -> {0, 1}]]]

\* the values np.random.randint(low, high) can return: low <= n < high;
\* it raises ValueError when low >= high
RandInt(low, high) == low..(high - 1)

----------------------------------------------------------------------------
(* The problem classes. *)

NoProblem == [cls |-> "None"]
NoBatch == [present |-> FALSE]

Classes == {"ManipulationSpatialNot", "SerialRecallSimplified"}

\* the parameter dictionaries handed to the constructors
ParamSets ==
    {p \in [control_bits : 0..MaxCtrl, data_bits : 0..MaxData, batch_size : 1..MaxBatch,
            min_sequence_length : 1..MaxLen, max_sequence_length : 1..MaxLen] :
        p.batch_size * p.max_sequence_length * p.data_bits <= MaxCells}

\* ManipulationSpatialNot.__init__: the two assertions
ManipulationSpatialNot_init_ok(params) ==
    /\ params.control_bits >= 2
    /\ params.data_bits >= 2

\* SerialRecallSimplified.__init__: the two assertions
SerialRecallSimplified_init_ok(params) ==
    /\ params.control_bits >= 1
    /\ params.data_bits >= 1

init_ok(cls, params) ==
    IF cls = "ManipulationSpatialNot" THEN ManipulationSpatialNot_init_ok(params)
    ELSE SerialRecallSimplified_init_ok(params)

\* the object after the parent constructor has stored the parameters
NewProblem(cls, params) ==
    [cls |-> cls,
     control_bits |-> params.control_bits,
     data_bits |-> params.data_bits,
     batch_size |-> params.batch_size,
     min_sequence_length |-> params.min_sequence_length,
     max_sequence_length |-> params.max_sequence_length]

\* ManipulationSpatialNot.generate_batch, for the drawn seq_length and bit_seq
ManipulationSpatialNot_generate_batch(self, seq_length, bit_seq) ==
    LET inputs0 == Zeros3(self.batch_size, 2 * seq_length + 2,
                          self.control_bits + self.data_bits)
        inputs1 == SetColumn(inputs0, 0, 1, 0, 1)
        inputs2 == SetBlock(inputs1, 1, seq_length + 1, self.control_bits,
                            self.control_bits + self.data_bits, bit_seq)
        inputs3 == SetColumn(inputs2, seq_length + 1, seq_length + 2, 1, 1)
        targets0 == Zeros3(self.batch_size, 2 * seq_length + 2, self.data_bits)
        targets1 == SetBlock(targets0, seq_length + 2, 2 * seq_length + 2,
                             0, self.data_bits, LogicalNot(bit_seq))
        mask0 == Zeros2(self.batch_size, 2 * seq_length + 2)
        mask1 == SetMaskFrom(mask0, seq_length + 2, 1)
    IN [present |-> TRUE, inputs |-> inputs3, targets |-> targets1,
        mask |-> mask1, seq_length |-> seq_length]

\* a variant of SerialRecallSimplified.generate_batch that keeps the start and recall
\* marker steps of the full serial recall task
SerialRecallSimplified_generate_batch_markers(self, seq_length, bit_seq) ==
    LET inputs0 == Zeros3(self.batch_size, 2 * seq_length + 2,
                          self.control_bits + self.data_bits)
        inputs1 == SetColumn(inputs0, 0, 1, 0, 1)
        inputs2 == SetBlock(inputs1, 1, seq_length + 1, self.control_bits,
                            self.control_bits + self.data_bits, bit_seq)
        inputs3 == SetColumn(inputs2, seq_length + 1, seq_length + 2, 0, 1)
        targets0 == Zeros3(self.batch_size, 2 * seq_length + 2, self.data_bits)
        targets1 == SetBlock(targets0, seq_length + 2, 2 * seq_length + 2,
                             0, self.data_bits, bit_seq)
        mask0 == Zeros2(self.batch_size, 2 * seq_length + 2)
        mask1 == SetMaskFrom(mask0, seq_length + 2, 1)
    IN [present |-> TRUE, inputs |-> inputs3, targets |-> targets1,
        mask |-> mask1, seq_length |-> seq_length]

\* a variant of SerialRecallSimplified.generate_batch whose targets recall the
\* sequence in reverse order
SerialRecallSimplified_generate_batch_reverse(self, seq_length, bit_seq) ==
    LET inputs0 == Zeros3(self.batch_size, 2 * seq_length,
                          self.control_bits + self.data_bits)
        inputs1 == SetColumn(inputs0, seq_length, 2 * seq_length, 0, 1)
        inputs2 == SetBlock(inputs1, 0, seq_length, self.control_bits,
                            self.control_bits + self.data_bits, bit_seq)
        targets0 == Zeros3(self.batch_size, 2 * seq_length, self.data_bits)
        targets1 == SetBlock_reversed(targets0, seq_length, 2 * seq_length,
                                      0, self.data_bits, bit_seq)
        mask0 == Zeros2(self.batch_size, 2 * seq_length)
        mask1 == SetMaskFrom(mask0, seq_length, 1)
    IN [present |-> TRUE, inputs |-> inputs2, targets |-> targets1,
        mask |-> mask1, seq_length |-> seq_length]

\* SerialRecallSimplified.generate_batch, for the drawn seq_length and bit_seq
SerialRecallSimplified_generate_batch(self, seq_length, bit_seq) ==
    LET inputs0 == Zeros3(self.batch_size, 2 * seq_length,
                          self.control_bits + self.data_bits)
        inputs1 == SetColumn(inputs0, seq_length, 2 * seq_length, 0, 1)
        inputs2 == SetBlock(inputs1, 0, seq_length, self.control_bits,
                            self.control_bits + self.data_bits, bit_seq)
        targets0 == Zeros3(self.batch_size, 2 * seq_length, self.data_bits)
        targets1 == SetBlock(targets0, seq_length, 2 * seq_length,
                             0, self.data_bits, bit_seq)
        mask0 == Zeros2(self.batch_size, 2 * seq_length)
        mask1 == SetMaskFrom(mask0, seq_length, 1)
    IN [present |-> TRUE, inputs |-> inputs2, targets |-> targets1,
        mask |-> mask1, seq_length |-> seq_length]

generate_batch(self, seq_length, bit_seq) ==
    IF self.cls = "ManipulationSpatialNot"
    THEN ManipulationSpatialNot_generate_batch(self, seq_length, bit_seq)
    ELSE SerialRecallSimplified_generate_batch(self, seq_length, bit_seq)

\* the sequence lengths generate_batch can draw
SeqLengths(self) == RandInt(self.min_sequence_length, self.max_sequence_length + 1)

\* a variant of set_max_length that drops its argument
set_max_length_ignored(self, max_length) == self

\* set_max_length: the object after the call
set_max_length(self, max_length) == [self EXCEPT !.max_sequence_length = max_length]

----------------------------------------------------------------------------
(* Actions on a problem object. *)

\* problem = Class(params): the object exists only if both assertions pass
Construct ==
    /\ problem = NoProblem
    /\ raised = "None"
    /\ \E cls \in Classes, params \in ParamSets :
        /\ IF init_ok(cls, params)
           THEN /\ problem' = NewProblem(cls, params)
                /\ raised' = "None"
           ELSE /\ problem' = NoProblem
                /\ raised' = "AssertionError"
        /\ in_force' = [by |-> "__init__", value |-> params.max_sequence_length]
        /\ last_op' = [op |-> "__init__", cls |-> cls, params |-> params]
    /\ UNCHANGED <<batch, facVars, ctlVars>>

\* problem.generate_batch()
GenerateBatch ==
    /\ problem # NoProblem
    /\ IF SeqLengths(problem) = {}
       THEN /\ raised' = "ValueError"
            /\ UNCHANGED batch
       ELSE /\ \E seq_length \in SeqLengths(problem) :
                \E bit_seq \in BitSeqs(problem.batch_size, seq_length, problem.data_bits) :
                    batch' = generate_batch(problem, seq_length, bit_seq)
            /\ raised' = "None"
    /\ last_op' = [op |-> "generate_batch"]
    /\ UNCHANGED <<problem, in_force, facVars, ctlVars>>

\* problem.set_max_length(m)
SetMaxLength ==
    /\ problem # NoProblem
    /\ \E m \in 0..MaxLen :
        /\ problem.batch_size * m * problem.data_bits <= MaxCells
        /\ problem' = set_max_length(problem, m)
        /\ in_force' = [by |-> "set_max_length", value |-> m]
    /\ raised' = "None"
    /\ last_op' = [op |-> "set_max_length"]
    /\ UNCHANGED <<batch, facVars, ctlVars>>


----------------------------------------------------------------------------
(* ModelFactory.build_model *)

NoResult == [by |-> "None"]

Raise(by, params, exc) == [by |-> by, params |-> params, kind |-> "raise", exc |-> exc]
Return(by, params, cls) ==
    [by |-> by, params |-> params, kind |-> "return", cls |-> cls, args |-> params]

\* the class imported at the top of model_factory.py
NTM == [name |-> "NTM", module |-> "models.ntm.ntm_layer"]

\* parameter dictionaries given to build_model: with and without the key 'name'
ModelParams ==
    {[name |-> n] : n \in {"ntm_v1", "ntm", "dnc", "NTM_V1"}} \cup {[batch_size |-> 1]}

\* a variant of build_model that falls back to the NTM for an unknown name
build_model_fallback(params) ==
    IF "name" \notin DOMAIN params
    THEN Raise("build_model", params, "ValueError")
    ELSE Return("build_model", params, NTM)

\* ModelFactory.build_model(params)
build_model(params) ==
    IF "name" \notin DOMAIN params
    THEN Raise("build_model", params, "ValueError")
    ELSE IF params.name = "ntm_v1"
         THEN Return("build_model", params, NTM)
         ELSE Raise("build_model", params, "ValueError")

----------------------------------------------------------------------------
(* ProblemFactory.build_problem *)

\* bound on the number of python files under problems/
MaxFiles == 2
\* bound on the length sys.path grows to (build_problem appends, never removes)
MaxPath == 3

Dirs == {"problems/seq_to_seq/algorithmic", "problems/image_to_class"}
Bases == {"serial_recall_simplified", "manipulation_spatial_not"}

\* names of classes a problem module may define itself
OwnNames == {"Problem", "Helper"}
\* a class a problem module imports from elsewhere: its __module__ is the other module
ImportedMembers == {[name |-> "DataTuple", module |-> "problems.problem"]}

\* the class members a module file called base + '.py' may have
Contents(base) ==
    {{[name |-> n, module |-> base] : n \in own} \cup imp :
        own \in SUBSET OwnNames, imp \in SUBSET ImportedMembers}

\* the trees under problems/: file <<dir, base>> -> the class members of the module
FileSystems ==
    {f \in UNION {[F -> UNION {Contents(b) : b \in Bases}] :
                    F \in {G \in SUBSET (Dirs \X Bases) : Cardinality(G) <= MaxFiles}} :
        \A file \in DOMAIN f : f[file] \in Contents(file[2])}

\* params['name'] as its path components; some dictionaries lack the key
ProblemParams ==
    {[name |-> <<b>>] : b \in Bases \cup {"missing_problem"}}
    \cup {[name |-> <<"algorithmic", b>>] : b \in Bases}
    \cup {[batch_size |-> 1]}

\* os.path.basename: the last component of the path
basename(path) == path[Len(path)]

\* the directories glob.iglob('problems/**/*.py') yields a file named name + '.py' in
Matches(name) == {d \in Dirs : <<d, name>> \in DOMAIN fs}

\* the orders in which glob.iglob can yield them
Orders(S) == {o \in [1..Cardinality(S) -> S] : \A i, j \in 1..Cardinality(S) :
                  o[i] = o[j] => i = j}

\* the import system's search of sys.path: the first directory holding name + '.py'
FindModule(path, name) ==
    LET hits == {i \in 1..Len(path) : <<path[i], name>> \in DOMAIN fs}
    IN IF hits = {} THEN <<>>
       ELSE <<path[CHOOSE i \in hits : \A j \in hits : i <= j]>>

\* a variant of is_class_member without the __module__ test: imported classes count
is_class_member_any(member, name) == TRUE

\* is_class_member over the module's members: classes whose __module__ is name
is_class_member(member, name) == member.module = name

\* inspect.getmembers(sys.modules[name], is_class_member)
clsmembers(dir, name) == {m \in fs[<<dir, name>>] : is_class_member(m, name)}

\* ProblemFactory.build_problem(params)
BuildProblem ==
    \E params \in ProblemParams :
        IF "name" \notin DOMAIN params
        THEN /\ result' = Raise("build_problem", params, "KeyError")
             /\ UNCHANGED <<fs, sys_path, sys_modules, genVars, ctlVars>>
        ELSE LET name == basename(params.name) IN
             \E order \in Orders(Matches(name)) :
                LET path == sys_path \o order
                    found == IF name \in DOMAIN sys_modules
                             THEN <<sys_modules[name]>>
                             ELSE FindModule(path, name)
                IN /\ Len(path) <= MaxPath
                   /\ sys_path' = path
                   /\ IF found = <<>>
                      THEN /\ result' = Raise("build_problem", params, "ModuleNotFoundError")
                           /\ UNCHANGED sys_modules
                      ELSE /\ sys_modules' = [n \in DOMAIN sys_modules \cup {name} |->
                                                IF n = name THEN found[1] ELSE sys_modules[n]]
                           /\ LET members == clsmembers(found[1], name) IN
                              IF Cardinality(members) # 1
                              THEN result' = Raise("build_problem", params, "AssertionError")
                              ELSE result' = Return("build_problem", params,
                                                    CHOOSE m \in members : TRUE)
                   /\ UNCHANGED <<fs, genVars, ctlVars>>

\* ModelFactory.build_model(params)
BuildModel ==
    /\ \E params \in ModelParams : result' = build_model(params)
    /\ UNCHANGED <<fs, sys_path, sys_modules, genVars, ctlVars>>

----------------------------------------------------------------------------
(* The NTM controller (models/ntm/controller.py). Values are fixed-point numbers *)
(* in hundredths: 100 stands for 1.0. One row of the batch is modelled: every    *)
(* layer acts on each row alone.                                                  *)

\* bound on the magnitude of the components of tm_input, tm_state and read_data
MaxIn == 1

\* the weights a linear layer may hold
WeightVals == {-1, 1}
\* the biases a linear layer may hold, in hundredths
BiasVals == {0, 100}

NoController == [built |-> FALSE]
NoForward == [called |-> FALSE]

\* torch.cat((a, b, c), dim=-1)
Cat3(a, b, c) == a \o b \o c

\* the sum over j of w[j] * x[j]
RECURSIVE Dot(_, _, _)
Dot(w, x, n) == IF n = 0 THEN 0 ELSE Dot(w, x, n - 1) + w[n] * x[n]

\* nn.Linear applied to x: one output per row of the weight matrix, W x + b
Linear(layer, x) ==
    [i \in 1..Len(layer.weight) |-> Dot(layer.weight[i], x, Len(x)) + layer.bias[i]]

\* the logistic function on one value, in hundredths, rounded
SigmoidValue(h) ==
    IF h <= -400 THEN 2
    ELSE IF h <= -300 THEN 5
    ELSE IF h <= -200 THEN 12
    ELSE IF h <= -100 THEN 27
    ELSE IF h <= 0 THEN 50
    ELSE IF h <= 100 THEN 73
    ELSE IF h <= 200 THEN 88
    ELSE IF h <= 300 THEN 95
    ELSE 98

\* F.sigmoid on a vector
Sigmoid(v) == [i \in 1..Len(v) |-> SigmoidValue(v[i])]

\* the nn.Linear(in_dim, out_dim) layers torch can initialise
Layers(in_dim, out_dim) ==
    [weight : [1..out_dim -> [1..in_dim -> WeightVals]], bias : [1..out_dim -> BiasVals]]

\* the vectors of n components given to forward
Vectors(n) == [1..n -> {100 * k : k \in (-MaxIn)..MaxIn}]

\* Controller.__init__ with one input, one state, one read and one update unit
\* and tm_output_units in {0, 1}; tm_i2o exists only when tm_output_units > 0
Controllers ==
    {[built |-> TRUE, tm_output_units |-> 0, tm_i2s |-> s, tm_i2u |-> u] :
        s \in Layers(3, 1), u \in Layers(3, 1)}
    \cup
    {[built |-> TRUE, tm_output_units |-> 1, tm_i2o |-> o, tm_i2s |-> s, tm_i2u |-> u] :
        o \in Layers(3, 1), s \in Layers(3, 1), u \in Layers(3, 1)}

\* Controller.forward(tm_input, tm_state, read_data)
forward(self, tm_input, tm_state, read_data) ==
    LET combined == Cat3(tm_input, tm_state, read_data)
        tm_output == IF self.tm_output_units > 0
                     THEN <<Sigmoid(Linear(self.tm_i2o, combined))>>
                     ELSE <<>>
        tm_state1 == Linear(self.tm_i2s, combined)
        tm_state2 == Sigmoid(tm_state1)
        update_data == Linear(self.tm_i2u, combined)
    IN [tm_output |-> tm_output, tm_state |-> tm_state2, update_data |-> update_data]

\* controller.forward(...) on drawn arguments; the module itself is not changed
Forward ==
    /\ controller.built
    /\ \E tm_input \in Vectors(1), tm_state \in Vectors(1), read_data \in Vectors(1) :
        forward_out' = [called |-> TRUE,
                        tm_input |-> tm_input, tm_state |-> tm_state,
                        read_data |-> read_data,
                        returned |-> forward(controller, tm_input, tm_state, read_data)]
    /\ UNCHANGED <<controller, genVars, facVars>>

----------------------------------------------------------------------------
(* Specifications. *)

GenInit ==
    /\ problem = NoProblem
    /\ raised = "None"
    /\ batch = NoBatch
    /\ last_op = [op |-> "None"]
    /\ in_force = [by |-> "None", value |-> 0]

FacStart ==
    /\ sys_path = <<>>
    /\ sys_modules = <<>>
    /\ result = NoResult

\* the generators: a problem object and the calls made on it
CtlStart ==
    /\ controller = NoController
    /\ forward_out = NoForward

Init == GenInit /\ FacStart /\ fs = <<>> /\ CtlStart

Next == Construct \/ GenerateBatch \/ SetMaxLength

Spec == Init /\ [][Next]_vars

\* the factories: any tree under problems/, then calls of the two factories
InitFactory == GenInit /\ FacStart /\ fs \in FileSystems /\ CtlStart

NextFactory == BuildProblem \/ BuildModel

SpecFactory == InitFactory /\ [][NextFactory]_vars

\* the controller: any constructed Controller, then calls of forward
InitController ==
    /\ GenInit /\ FacStart /\ fs = <<>>
    /\ controller \in Controllers
    /\ forward_out = NoForward

NextController == Forward

SpecController == InitController /\ [][NextController]_vars

----------------------------------------------------------------------------
(* Properties of the generated batches. *)

IsNot == problem.cls = "ManipulationSpatialNot"
IsSrs == problem.cls = "SerialRecallSimplified"

Samples == 0..(problem.batch_size - 1)
DataBits == 0..(problem.data_bits - 1)
ControlBits == 0..(problem.control_bits - 1)
\* the first step of the recall segment of the batch held
RecallStart == IF IsNot THEN batch.seq_length + 2 ELSE batch.seq_length
\* the number of time steps the batch should have
Steps == IF IsNot THEN 2 * batch.seq_length + 2 ELSE 2 * batch.seq_length

\* C1: in a ManipulationSpatialNot batch of length L, targets[b, L+2+k, j] is the
\* logical NOT of inputs[b, 1+k, control_bits+j] for k < L, and the targets are 0
\* at every step before L+2.
C1_NotTargets ==
    (batch.present /\ IsNot) =>
        LET L == batch.seq_length IN
        \A b \in Samples, j \in DataBits :
            /\ \A k \in 0..(L - 1) :
                /\ batch.targets[b][L + 2 + k][j] \in {0, 1}
                /\ batch.inputs[b][1 + k][problem.control_bits + j] \in {0, 1}
                /\ batch.targets[b][L + 2 + k][j] = 1
                       <=> batch.inputs[b][1 + k][problem.control_bits + j] = 0
            /\ \A t \in 0..(L + 1) : batch.targets[b][t][j] = 0

\* a two-step NOT batch whose data holds both a one and a zero
C1_Witness ==
    /\ batch.present /\ IsNot /\ batch.seq_length = 2
    /\ batch.inputs[0][1][problem.control_bits] = 1
    /\ batch.inputs[0][2][problem.control_bits] = 0
    /\ batch.targets[0][4][0] = 0
    /\ batch.targets[0][5][0] = 1

\* C2: in a SerialRecallSimplified batch of length L, targets[b, L+k, j] equals
\* inputs[b, k, control_bits+j] for k < L (same order), and the targets are 0 at
\* every step before L.
C2_CopyTargets ==
    (batch.present /\ IsSrs) =>
        LET L == batch.seq_length IN
        \A b \in Samples, j \in DataBits :
            /\ \A k \in 0..(L - 1) :
                batch.targets[b][L + k][j] = batch.inputs[b][k][problem.control_bits + j]
            /\ \A t \in 0..(L - 1) : batch.targets[b][t][j] = 0

\* a two-step copy batch whose two patterns differ, so the order shows
C2_Witness ==
    /\ batch.present /\ IsSrs /\ batch.seq_length = 2
    /\ batch.inputs[0][0][problem.control_bits] = 1
    /\ batch.inputs[0][1][problem.control_bits] = 0
    /\ batch.targets[0][2][0] = 1
    /\ batch.targets[0][3][0] = 0

\* C3: in both generators mask[b, t] = 1 exactly at the last L steps (t >= L+2 for
\* ManipulationSpatialNot, t >= L for SerialRecallSimplified): each sample has
\* exactly L masked steps and every non-zero target lies at a masked step.
C3_MaskIsRecallSegment ==
    batch.present =>
        \A b \in Samples :
            /\ \A t \in DOMAIN batch.mask[b] :
                /\ batch.mask[b][t] \in {0, 1}
                /\ batch.mask[b][t] = 1 <=> t >= RecallStart
                /\ batch.mask[b][t] = 1 <=> t >= Steps - batch.seq_length
            /\ Cardinality({t \in DOMAIN batch.mask[b] : batch.mask[b][t] = 1})
                   = batch.seq_length
            /\ \A t \in DOMAIN batch.targets[b] : \A j \in DataBits :
                batch.targets[b][t][j] # 0 => batch.mask[b][t] = 1

\* a two-sample NOT batch, masked from step L+2 on, with a non-zero target there
C3_Witness ==
    /\ batch.present /\ IsNot /\ problem.batch_size = 2
    /\ batch.mask[1][batch.seq_length + 2] = 1
    /\ batch.mask[1][batch.seq_length + 1] = 0
    /\ batch.targets[1][batch.seq_length + 2][0] = 1

\* C4: a ManipulationSpatialNot batch has inputs of shape [batch_size, 2L+2,
\* control_bits+data_bits], targets [batch_size, 2L+2, data_bits] and mask
\* [batch_size, 2L+2]; the only control bits set are bit 0 at step 0 and bit 1 at
\* step L+1; data bits are non-zero only at steps 1..L; the inputs at steps
\* L+2..2L+1 are all zero.
C4_NotLayout ==
    (batch.present /\ IsNot) =>
        LET L == batch.seq_length
            T == 0..(2 * L + 1)
            W == 0..(problem.control_bits + problem.data_bits - 1)
        IN
        /\ DOMAIN batch.inputs = Samples
        /\ DOMAIN batch.targets = Samples
        /\ DOMAIN batch.mask = Samples
        /\ \A b \in Samples :
            /\ DOMAIN batch.inputs[b] = T
            /\ DOMAIN batch.targets[b] = T
            /\ DOMAIN batch.mask[b] = T
            /\ \A t \in T :
                /\ DOMAIN batch.inputs[b][t] = W
                /\ DOMAIN batch.targets[b][t] = DataBits
                /\ \A c \in ControlBits :
                    batch.inputs[b][t][c] # 0
                        <=> ((t = 0 /\ c = 0) \/ (t = L + 1 /\ c = 1))
                /\ \A j \in DataBits :
                    batch.inputs[b][t][problem.control_bits + j] # 0 => t \in 1..L
                /\ t >= L + 2 => \A w \in W : batch.inputs[b][t][w] = 0

\* a NOT batch with a spare control bit, two steps and a data bit set at step 2
C4_Witness ==
    /\ batch.present /\ IsNot /\ batch.seq_length = 2 /\ problem.control_bits = 3
    /\ batch.inputs[0][0][0] = 1
    /\ batch.inputs[0][3][1] = 1
    /\ batch.inputs[0][2][problem.control_bits + 1] = 1

\* C5: a SerialRecallSimplified batch has no marker steps: inputs have shape
\* [batch_size, 2L, control_bits+data_bits], targets [batch_size, 2L, data_bits]
\* (data bits only), control bit 0 is the only control bit ever set, and data bits
\* are non-zero only at steps 0..L-1.
C5_SrsLayout ==
    (batch.present /\ IsSrs) =>
        LET L == batch.seq_length
            T == 0..(2 * L - 1)
            W == 0..(problem.control_bits + problem.data_bits - 1)
        IN
        /\ DOMAIN batch.inputs = Samples
        /\ DOMAIN batch.targets = Samples
        /\ \A b \in Samples :
            /\ DOMAIN batch.inputs[b] = T
            /\ DOMAIN batch.targets[b] = T
            /\ \A t \in T :
                /\ DOMAIN batch.inputs[b][t] = W
                /\ DOMAIN batch.targets[b][t] = DataBits
                /\ \A c \in ControlBits : batch.inputs[b][t][c] # 0 => c = 0
                /\ \A j \in DataBits :
                    batch.inputs[b][t][problem.control_bits + j] # 0 => t \in 0..(L - 1)

\* a copy batch with spare control bits, control bit 0 set and a data bit set
C5_Witness ==
    /\ batch.present /\ IsSrs /\ batch.seq_length = 2 /\ problem.control_bits = 3
    /\ \E t \in DOMAIN batch.inputs[0] : batch.inputs[0][t][0] = 1
    /\ batch.inputs[0][1][problem.control_bits] = 1

\* C6: in a SerialRecallSimplified batch the memorization bit inputs[b, t, 0] is 1
\* exactly at the steps that carry the bit sequence to be memorized (the steps
\* 0..L-1 where the random bit patterns are placed).
C6_MemorizationBitOnStoredSteps ==
    (batch.present /\ IsSrs) =>
        \A b \in Samples : \A t \in DOMAIN batch.inputs[b] :
            batch.inputs[b][t][0] = 1 <=> t \in 0..(batch.seq_length - 1)

\* C7: every batch generated has a length L, shared by all its samples, with
\* min_sequence_length <= L <= the max length in force at the call (the most
\* recent set_max_length argument, or the constructor's max_sequence_length).
C7_LengthWithinCurriculum ==
    (last_op.op = "generate_batch" /\ raised = "None") =>
        /\ batch.present
        /\ problem.min_sequence_length <= batch.seq_length
        /\ batch.seq_length <= in_force.value
        /\ \A b \in Samples :
            /\ DOMAIN batch.inputs[b] = 0..(Steps - 1)
            /\ DOMAIN batch.targets[b] = 0..(Steps - 1)
            /\ DOMAIN batch.mask[b] = 0..(Steps - 1)

\* a batch generated after set_max_length, as long as that maximum allows and
\* longer than the minimum
C7_Witness ==
    /\ last_op.op = "generate_batch" /\ raised = "None"
    /\ in_force.by = "set_max_length"
    /\ batch.seq_length = in_force.value
    /\ batch.seq_length > problem.min_sequence_length
    /\ problem.batch_size = 2

\* C8: constructing a ManipulationSpatialNot succeeds exactly when
\* control_bits >= 2 and data_bits >= 1, and fails with an assertion error
\* otherwise.
C8_NotRequiresTwoControlOneData ==
    (last_op.op = "__init__" /\ last_op.cls = "ManipulationSpatialNot") =>
        IF last_op.params.control_bits >= 2 /\ last_op.params.data_bits >= 1
        THEN raised = "None" /\ problem # NoProblem
        ELSE raised = "AssertionError" /\ problem = NoProblem

----------------------------------------------------------------------------
(* Properties of the factories. *)

\* C9: build_model raises ValueError when params has no 'name', returns an NTM
\* built from params when the name is 'ntm_v1', and raises ValueError for every
\* other name; it never returns anything else.
C9_BuildModelDispatch ==
    result.by = "build_model" =>
        IF "name" \in DOMAIN result.params /\ result.params.name = "ntm_v1"
        THEN /\ result.kind = "return"
             /\ result.cls.name = "NTM"
             /\ result.args = result.params
        ELSE /\ result.kind = "raise"
             /\ result.exc = "ValueError"

\* build_model has returned an NTM for 'ntm_v1'
C9_Witness ==
    /\ result.by = "build_model"
    /\ result.kind = "return"
    /\ result.params = [name |-> "ntm_v1"]

\* the module build_problem imported for its last call, when it imported one
ImportedFile == <<sys_modules[basename(result.params.name)], basename(result.params.name)>>

\* the classes that file defines itself
OwnClasses(file) == {m \in fs[file] : m.module = file[2]}

\* C10: when a file basename(params['name']) + '.py' exists under problems/,
\* build_problem returns an instance, constructed with params, of the one class
\* that module defines; if the module defines zero or several classes of its own
\* (imported ones not counted) the call fails on the assertion and returns nothing.
C10_BuildProblemSingleClass ==
    (/\ result.by = "build_problem"
     /\ "name" \in DOMAIN result.params
     /\ \E d \in Dirs : <<d, basename(result.params.name)>> \in DOMAIN fs) =>
        /\ basename(result.params.name) \in DOMAIN sys_modules
        /\ ImportedFile \in DOMAIN fs
        /\ ImportedFile[1] \in Dirs
        /\ IF Cardinality(OwnClasses(ImportedFile)) = 1
           THEN /\ result.kind = "return"
                /\ result.cls \in OwnClasses(ImportedFile)
                /\ result.args = result.params
           ELSE /\ result.kind = "raise"
                /\ result.exc = "AssertionError"

\* build_problem has returned the one own class of a module that also imports a
\* class, for a name given with a directory part
C10_Witness ==
    /\ result.by = "build_problem"
    /\ result.kind = "return"
    /\ Len(result.params.name) = 2
    /\ \E m \in fs[ImportedFile] : m.module # ImportedFile[2]

----------------------------------------------------------------------------
(* Properties of the controller. *)

\* the concatenation forward was last called on
Combined == Cat3(forward_out.tm_input, forward_out.tm_state, forward_out.read_data)

\* C11: forward returns tm_state and update_data with no activation applied: each
\* is the plain linear transformation (tm_i2s, tm_i2u) of the concatenation of
\* tm_input, tm_state and read_data; only tm_output passes through an activation.
C11_StateAndUpdateAreLinear ==
    forward_out.called =>
        /\ forward_out.returned.tm_state = Linear(controller.tm_i2s, Combined)
        /\ forward_out.returned.update_data = Linear(controller.tm_i2u, Combined)
        /\ controller.tm_output_units > 0 =>
               forward_out.returned.tm_output
                   = <<Sigmoid(Linear(controller.tm_i2o, Combined))>>

====
